---- MODULE Spec2Model ----
(***************************************************************************)
(* Model of stellargraph.mapper.GraphGenerator and                         *)
(* stellargraph.mapper.PaddedGraphGenerator: the two constructors and the  *)
(* two flow methods, as a state machine of one caller that constructs a    *)
(* generator and then calls flow any number of times.                      *)
(*                                                                         *)
(* Python values are encoded as follows.                                   *)
(*   None / a value v      : <<>> / <<v>>                                  *)
(*   a list                : a sequence (Python index i is TLA+ index i+1) *)
(*   a raised exception    : outcome = the exception class name            *)
(*   an element of graphs  : a record; sg says whether it is an instance   *)
(*                           of StellarGraph, id is the object's identity  *)
(***************************************************************************)
EXTENDS Integers, Sequences, FiniteSets

VARIABLES pc, cls, args, ctor, call, ret

vars == <<pc, cls, args, ctor, call, ret>>

None == <<>>

Some(v) == <<v>>

\* ------------------------------------------------------------------ bounds
\* longest list of graphs handed to a constructor
MaxGraphs == 2

\* longest graph_ilocs list handed to flow
MaxIlocs == 2

\* ------------------------------------------------------------------ inputs
\* feature dimensionalities a graph of the inputs can have
Dims == {3, 4}

\* a StellarGraph: number of node types, ML-readiness, dimensionality of the
\* features of its (first) node type
GraphShapes ==
    [sg : {TRUE}, ntypes : {1, 2}, ml : BOOLEAN, fdim : Dims]

\* an object that is not a StellarGraph
NonGraphShapes ==
    [sg : {FALSE}, ntypes : {0}, ml : {FALSE}, fdim : {0}]

ElementShapes == GraphShapes \cup NonGraphShapes

WithId(shape, i) ==
    [id |-> i, sg |-> shape.sg, ntypes |-> shape.ntypes, ml |-> shape.ml,
     fdim |-> shape.fdim]

\* the lists of at most MaxGraphs distinct objects
GraphLists ==
    UNION { { [i \in 1..n |-> WithId(f[i], i)] : f \in [1..n -> ElementShapes] }
            : n \in 0..MaxGraphs }

GeneratorNames == {None, Some("gen")}

\* graph_ilocs: Python indexes, negative ones included
IlocValues == {-(MaxGraphs + 1), -1} \cup (0..MaxGraphs)

IlocLists ==
    UNION { [1..n -> IlocValues] : n \in 0..MaxIlocs }

\* targets: None, a non-iterable object, or an array with one row per entry
TargetRows(n) == [k \in 1..n |-> 10 + k]

TargetsValues ==
    {[kind |-> "None", rows |-> <<>>], [kind |-> "noniterable", rows |-> <<>>]}
    \cup { [kind |-> "array", rows |-> TargetRows(n)] : n \in 0..(MaxIlocs + 1) }

\* batch_size: ints, bools (a subclass of int in Python) and a float
BatchSizes ==
    [type : {"int"}, val : -1..2]
    \cup {[type |-> "bool", val |-> 0], [type |-> "bool", val |-> 1]}
    \cup {[type |-> "float", val |-> 2]}

\* the arguments flow only passes through
PassThrough ==
    {[name |-> None, symmetric_normalization |-> TRUE, shuffle |-> FALSE,
      seed |-> None],
     [name |-> Some("seq"), symmetric_normalization |-> FALSE, shuffle |-> TRUE,
      seed |-> Some(0)]}

\* ------------------------------------------------- Python and collaborators
Raise(class) == [outcome |-> class, self |-> None]

Return(self) == [outcome |-> "ok", self |-> Some(self)]

\* isinstance(graph, StellarGraph)
isinstance_StellarGraph(graph) == graph.sg

\* xs[i] raises IndexError unless -len(xs) <= i < len(xs)
IndexInRange(xs, i) == -Len(xs) <= i /\ i < Len(xs)

GetItem(xs, i) == IF i >= 0 THEN xs[i + 1] ELSE xs[Len(xs) + i + 1]

\* graph.check_graph_for_ml() raises (a value-classified error) on a graph
\* without ML-ready features
check_graph_for_ml_raises(graph) == ~graph.ml

\* graph.unique_node_type(msg) raises ValueError on several node types
unique_node_type_raises(graph) == graph.ntypes # 1

\* graph.node_features(graph.nodes()).shape[1]
node_features_shape1(graph) == graph.fdim

\* graph.node_feature_sizes()[node_type]
node_feature_sizes_of(graph) == graph.fdim

\* is_real_iterable(targets)
is_real_iterable(targets) == targets.kind = "array"

\* isinstance(batch_size, int)
isinstance_int(batch_size) == batch_size.type \in {"int", "bool"}

\* ------------------------------------------------ GraphGenerator.__init__
\* len(graph.node_types) > 1
HasMultipleNodeTypes_AtLeastOne(graph) == graph.ntypes >= 1

HasMultipleNodeTypes(graph) == graph.ntypes > 1

\* the loop that checks that there is only a single node type
SomeGraphHasMultipleNodeTypes_FirstOnly(graphs) ==
    HasMultipleNodeTypes(graphs[1])

SomeGraphHasMultipleNodeTypes(graphs) ==
    \E i \in 1..Len(graphs) : HasMultipleNodeTypes(graphs[i])

\* graphs[0].node_features(graphs[0].nodes()).shape[1]
FirstGraphFeatureSize_Last(graphs) == node_features_shape1(graphs[Len(graphs)])

FirstGraphFeatureSize(graphs) == node_features_shape1(graphs[1])

\* the isinstance loop over all graphs
SomeElementIsNotAGraph_FirstOnly(graphs) ==
    Len(graphs) > 0 /\ ~isinstance_StellarGraph(graphs[1])

SomeElementIsNotAGraph(graphs) ==
    \E i \in 1..Len(graphs) : ~isinstance_StellarGraph(graphs[i])

GraphGenerator_init(graphs, name) ==
    IF SomeElementIsNotAGraph(graphs)
    THEN Raise("TypeError")
    ELSE IF ~IndexInRange(graphs, 0)
    THEN Raise("IndexError")
    ELSE LET node_features_size == FirstGraphFeatureSize(graphs) IN
         IF \E i \in 1..Len(graphs) : check_graph_for_ml_raises(graphs[i])
         THEN Raise("ValueError")
         ELSE IF SomeGraphHasMultipleNodeTypes(graphs)
         THEN Raise("ValueError")
         ELSE Return([graphs |-> graphs,
                      node_features_size |-> Some(node_features_size),
                      name |-> name])

\* ------------------------------------------ PaddedGraphGenerator.__init__
\* elif self.node_features_size != f_dim
DimensionMismatch_Ignored(node_features_size, f_dim) == FALSE

DimensionMismatch(node_features_size, f_dim) ==
    node_features_size # None /\ node_features_size # Some(f_dim)

RECURSIVE PaddedLoop(_, _, _)
\* the for loop, at element i (1-based) with self.node_features_size so far:
\* the exception class raised, or "ok" and the final node_features_size
PaddedLoop(graphs, i, node_features_size) ==
    IF i > Len(graphs)
    THEN [outcome |-> "ok", node_features_size |-> node_features_size]
    ELSE LET graph == graphs[i] IN
         IF ~isinstance_StellarGraph(graph)
         THEN [outcome |-> "TypeError", node_features_size |-> node_features_size]
         ELSE IF unique_node_type_raises(graph)
         THEN [outcome |-> "ValueError", node_features_size |-> node_features_size]
         ELSE IF check_graph_for_ml_raises(graph)
         THEN [outcome |-> "ValueError", node_features_size |-> node_features_size]
         ELSE LET f_dim == node_feature_sizes_of(graph) IN
              IF node_features_size = None
              THEN PaddedLoop(graphs, i + 1, Some(f_dim))
              ELSE IF DimensionMismatch(node_features_size, f_dim)
              THEN [outcome |-> "ValueError",
                    node_features_size |-> node_features_size]
              ELSE PaddedLoop(graphs, i + 1, node_features_size)

PaddedGraphGenerator_init(graphs, name) ==
    LET loop == PaddedLoop(graphs, 1, None) IN
    IF loop.outcome # "ok"
    THEN Raise(loop.outcome)
    ELSE Return([graphs |-> graphs,
                 node_features_size |-> loop.node_features_size,
                 name |-> name])

\* ------------------------------------------------------------------- flow
\* the result of a flow call: the exception class or "ok", the keyword
\* arguments the sequence constructor received (None when it was not
\* invoked), and the generator as the call left it
FlowRaise(class, self) == [outcome |-> class, seq |-> None, self |-> self]

\* len(targets) != len(graph_ilocs)
TargetsLengthMismatch_AgainstGraphs(self, targets, graph_ilocs) ==
    Len(targets.rows) # Len(self.graphs)

TargetsLengthMismatch(self, targets, graph_ilocs) ==
    Len(targets.rows) # Len(graph_ilocs)

\* [self.graphs[i] for i in graph_ilocs], once every index is in range
SelectGraphs_Sorted(graphs, graph_ilocs) ==
    LET picked == {graph_ilocs[k] : k \in 1..Len(graph_ilocs)}
        Rank(i) == Cardinality({j \in picked : j < i})
        ordered == [r \in 1..Cardinality(picked) |->
                       CHOOSE i \in picked : Rank(i) = r - 1]
    IN  [k \in 1..Len(ordered) |-> GetItem(graphs, ordered[k])]

SelectGraphs(graphs, graph_ilocs) ==
    [k \in 1..Len(graph_ilocs) |-> GetItem(graphs, graph_ilocs[k])]

\* some self.graphs[i] raises IndexError
SomeIlocOutOfRange(graphs, graph_ilocs) ==
    \E k \in 1..Len(graph_ilocs) : ~IndexInRange(graphs, graph_ilocs[k])

\* batch_size <= 0
BatchSizeNotPositive_Strict(batch_size) == batch_size.val < 0

BatchSizeNotPositive(batch_size) == batch_size.val <= 0

\* what targets=targets hands over
PassTargets(targets) == targets

GraphGenerator_flow_KeepsName(self, graph_ilocs, targets, batch_size, name) ==
    IF targets.kind # "None" /\ ~is_real_iterable(targets)
    THEN FlowRaise("TypeError", self)
    ELSE IF targets.kind # "None"
            /\ TargetsLengthMismatch(self, targets, graph_ilocs)
    THEN FlowRaise("ValueError", self)
    ELSE IF SomeIlocOutOfRange(self.graphs, graph_ilocs)
    THEN FlowRaise("IndexError", [self EXCEPT !.name = name])
    ELSE [outcome |-> "ok",
          seq |-> Some([class |-> "GraphSequence",
                        graphs |-> SelectGraphs(self.graphs, graph_ilocs),
                        targets |-> PassTargets(targets),
                        batch_size |-> batch_size,
                        name |-> name,
                        symmetric_normalization |-> None,
                        shuffle |-> None,
                        seed |-> None]),
          self |-> [self EXCEPT !.name = name]]

GraphGenerator_flow(self, graph_ilocs, targets, batch_size, name) ==
    IF targets.kind # "None" /\ ~is_real_iterable(targets)
    THEN FlowRaise("TypeError", self)
    ELSE IF targets.kind # "None"
            /\ TargetsLengthMismatch(self, targets, graph_ilocs)
    THEN FlowRaise("ValueError", self)
    ELSE IF SomeIlocOutOfRange(self.graphs, graph_ilocs)
    THEN FlowRaise("IndexError", self)
    ELSE [outcome |-> "ok",
          seq |-> Some([class |-> "GraphSequence",
                        graphs |-> SelectGraphs(self.graphs, graph_ilocs),
                        targets |-> PassTargets(targets),
                        batch_size |-> batch_size,
                        name |-> name,
                        symmetric_normalization |-> None,
                        shuffle |-> None,
                        seed |-> None]),
          self |-> self]

PaddedGraphGenerator_flow(self, graph_ilocs, targets, symmetric_normalization, batch_size, name, shuffle, seed) ==
    IF targets.kind # "None" /\ ~is_real_iterable(targets)
    THEN FlowRaise("TypeError", self)
    ELSE IF targets.kind # "None"
            /\ TargetsLengthMismatch(self, targets, graph_ilocs)
    THEN FlowRaise("ValueError", self)
    ELSE IF ~isinstance_int(batch_size)
    THEN FlowRaise("TypeError", self)
    ELSE IF BatchSizeNotPositive(batch_size)
    THEN FlowRaise("ValueError", self)
    ELSE IF SomeIlocOutOfRange(self.graphs, graph_ilocs)
    THEN FlowRaise("IndexError", self)
    ELSE [outcome |-> "ok",
          seq |-> Some([class |-> "PaddedGraphSequence",
                        graphs |-> SelectGraphs(self.graphs, graph_ilocs),
                        targets |-> PassTargets(targets),
                        batch_size |-> batch_size,
                        name |-> name,
                        symmetric_normalization |-> Some(symmetric_normalization),
                        shuffle |-> Some(shuffle),
                        seed |-> seed]),
          self |-> self]

\* ---------------------------------------------------------- state machine
\* pc: "start" (nothing constructed), "failed" (the constructor raised),
\* "ready" (a generator exists, no call in progress), "returned" (a flow call
\* has returned or raised; call and ret hold its arguments and its result)
Init ==
    /\ pc = "start"
    /\ cls = "none"
    /\ args = None
    /\ ctor = None
    /\ call = None
    /\ ret = None

Constructed(class, graphs, name, result) ==
    /\ pc' = IF result.outcome = "ok" THEN "ready" ELSE "failed"
    /\ cls' = class
    /\ args' = Some([graphs |-> graphs, name |-> name])
    /\ ctor' = Some(result)
    /\ UNCHANGED <<call, ret>>

ConstructGraphGenerator ==
    /\ pc = "start"
    /\ \E graphs \in GraphLists, name \in GeneratorNames :
          Constructed("GraphGenerator", graphs, name,
                      GraphGenerator_init(graphs, name))

ConstructPaddedGraphGenerator ==
    /\ pc = "start"
    /\ \E graphs \in GraphLists, name \in GeneratorNames :
          Constructed("PaddedGraphGenerator", graphs, name,
                      PaddedGraphGenerator_init(graphs, name))

Flowed(arguments, result) ==
    /\ pc' = "returned"
    /\ call' = Some(arguments)
    /\ ret' = Some([outcome |-> result.outcome, seq |-> result.seq])
    /\ ctor' = Some([outcome |-> "ok", self |-> Some(result.self)])
    /\ UNCHANGED <<cls, args>>

FlowGraphGenerator ==
    /\ pc = "ready"
    /\ cls = "GraphGenerator"
    /\ \E graph_ilocs \in IlocLists, targets \in TargetsValues,
          batch_size \in BatchSizes, rest \in PassThrough :
          Flowed([graph_ilocs |-> graph_ilocs, targets |-> targets,
                  batch_size |-> batch_size, rest |-> rest],
                 GraphGenerator_flow(ctor[1].self[1], graph_ilocs, targets,
                                     batch_size, rest.name))

FlowPaddedGraphGenerator ==
    /\ pc = "ready"
    /\ cls = "PaddedGraphGenerator"
    /\ \E graph_ilocs \in IlocLists, targets \in TargetsValues,
          batch_size \in BatchSizes, rest \in PassThrough :
          Flowed([graph_ilocs |-> graph_ilocs, targets |-> targets,
                  batch_size |-> batch_size, rest |-> rest],
                 PaddedGraphGenerator_flow(ctor[1].self[1], graph_ilocs, targets,
                                           rest.symmetric_normalization,
                                           batch_size, rest.name, rest.shuffle,
                                           rest.seed))

\* the caller goes on to its next flow call
NextCall ==
    /\ pc = "returned"
    /\ pc' = "ready"
    /\ call' = None
    /\ ret' = None
    /\ UNCHANGED <<cls, args, ctor>>

Next ==
    \/ ConstructGraphGenerator
    \/ ConstructPaddedGraphGenerator
    \/ FlowGraphGenerator
    \/ FlowPaddedGraphGenerator
    \/ NextCall

Spec == Init /\ [][Next]_vars

\* ----------------------------------------------------- reading the state
\* the list handed to the constructor, what the constructor did, and the
\* generator it produced
InputGraphs == args[1].graphs

CtorOutcome == ctor[1].outcome

Generator == ctor[1].self[1]

HasRun == pc # "start"

Ilocs == call[1].graph_ilocs

Targets == call[1].targets

BatchSize == call[1].batch_size

FlowOutcome == ret[1].outcome

Sequence == ret[1].seq[1]

\* a graph with a single node type and ML-ready features
IsValidGraph(g) == g.sg /\ g.ntypes = 1 /\ g.ml

AllValid(gs) == \A i \in 1..Len(gs) : IsValidGraph(gs[i])

AllGraphObjects(gs) == \A i \in 1..Len(gs) : gs[i].sg

SameDims(gs) == \A i, j \in 1..Len(gs) : gs[i].fdim = gs[j].fdim

IsDefinedInteger(opt) == opt # None /\ opt[1] \in Int

\* every index of graph_ilocs addresses an element of the collection
IlocsValid ==
    \A k \in 1..Len(Ilocs) :
        -Len(Generator.graphs) <= Ilocs[k] /\ Ilocs[k] < Len(Generator.graphs)

TargetsValid ==
    \/ Targets.kind = "None"
    \/ Targets.kind = "array" /\ Len(Targets.rows) = Len(Ilocs)

\* a Python int (bool is a subclass of int)
BatchIsInteger == BatchSize.type \in {"int", "bool"}

\* ------------------------------------------------------------------ claims
\* C1 as stated: for either generator, every list of single-node-type,
\* ML-ready graphs is accepted and node_features_size is a defined integer.
C1_AsStated ==
    (HasRun /\ AllValid(InputGraphs))
        => (CtorOutcome = "ok" /\ IsDefinedInteger(Generator.node_features_size))

\* C1 amended: for either generator, every non-empty list of single-node-type,
\* ML-ready graphs (for the padded generator: of one common feature
\* dimensionality) is accepted and node_features_size is a defined integer.
C1_Construction ==
    (/\ HasRun
     /\ InputGraphs # <<>>
     /\ AllValid(InputGraphs)
     /\ (cls = "PaddedGraphGenerator" => SameDims(InputGraphs)))
        => (CtorOutcome = "ok" /\ IsDefinedInteger(Generator.node_features_size))

C1_Witness ==
    /\ pc = "ready"
    /\ cls = "PaddedGraphGenerator"
    /\ Len(InputGraphs) >= 2
    /\ AllValid(InputGraphs)
    /\ IsDefinedInteger(Generator.node_features_size)

\* C2: a list of graph objects with, at any position, a graph that lacks
\* ML-ready features or has several node types is rejected with ValueError
\* by either constructor, and no generator is produced.
C2_InvalidGraphRejected ==
    (/\ HasRun
     /\ AllGraphObjects(InputGraphs)
     /\ \E i \in 1..Len(InputGraphs) :
            ~InputGraphs[i].ml \/ InputGraphs[i].ntypes > 1)
        => (CtorOutcome = "ValueError" /\ ctor[1].self = None /\ pc = "failed")

C2_Witness ==
    /\ pc = "failed"
    /\ cls = "GraphGenerator"
    /\ CtorOutcome = "ValueError"
    /\ Len(InputGraphs) >= 2
    /\ IsValidGraph(InputGraphs[1])
    /\ InputGraphs[2].sg /\ InputGraphs[2].ml /\ InputGraphs[2].ntypes > 1

\* C3: the padded constructor rejects with ValueError every list of otherwise
\* valid graphs in which two graphs differ in feature dimensionality, and a
\* generator it produces has every graph's dimensionality equal to
\* node_features_size.
C3_PaddedDimensions ==
    (HasRun /\ cls = "PaddedGraphGenerator")
        => /\ (AllValid(InputGraphs) /\ ~SameDims(InputGraphs))
                  => (CtorOutcome = "ValueError" /\ ctor[1].self = None)
           /\ CtorOutcome = "ok"
                  => \A i \in 1..Len(Generator.graphs) :
                         Some(Generator.graphs[i].fdim) = Generator.node_features_size

C3_Witness ==
    /\ pc = "failed"
    /\ cls = "PaddedGraphGenerator"
    /\ CtorOutcome = "ValueError"
    /\ AllValid(InputGraphs)
    /\ ~SameDims(InputGraphs)

\* C4 as stated: either constructor raises TypeError on every list holding an
\* element that is not a StellarGraph, whatever the other elements are.
C4_AsStated ==
    (HasRun /\ ~AllGraphObjects(InputGraphs)) => CtorOutcome = "TypeError"

\* the elements before the first one that is not a StellarGraph pass the padded
\* constructor's checks
PrefixPasses(gs) ==
    LET first == CHOOSE i \in 1..Len(gs) :
                     ~gs[i].sg /\ \A j \in 1..(i - 1) : gs[j].sg
    IN  \A j \in 1..(first - 1) : IsValidGraph(gs[j]) /\ gs[j].fdim = gs[1].fdim

\* C4 amended: on a list holding an element that is not a StellarGraph,
\* GraphGenerator always raises TypeError; PaddedGraphGenerator always fails,
\* with TypeError when every element before the first non-graph is a valid
\* graph of the common dimensionality, and otherwise with the ValueError of
\* the earlier invalid graph.
C4_NonGraphRejected ==
    (HasRun /\ ~AllGraphObjects(InputGraphs))
        => /\ pc = "failed"
           /\ cls = "GraphGenerator" => CtorOutcome = "TypeError"
           /\ cls = "PaddedGraphGenerator"
                  => CtorOutcome = (IF PrefixPasses(InputGraphs)
                                    THEN "TypeError" ELSE "ValueError")

C4_Witness ==
    /\ pc = "failed"
    /\ CtorOutcome = "TypeError"
    /\ Len(InputGraphs) >= 2
    /\ IsValidGraph(InputGraphs[1])
    /\ ~InputGraphs[2].sg

\* C5: for either flow, targets of a length other than len(graph_ilocs) give
\* ValueError; targets of the same length, with indexes in range and a
\* positive integer batch size, give a sequence over exactly len(graph_ilocs)
\* graphs.
C5_TargetsLength ==
    (pc = "returned" /\ Targets.kind = "array")
        => /\ Len(Targets.rows) # Len(Ilocs) => FlowOutcome = "ValueError"
           /\ (/\ Len(Targets.rows) = Len(Ilocs)
               /\ IlocsValid
               /\ BatchIsInteger /\ BatchSize.val >= 1)
                  => (FlowOutcome = "ok" /\ Len(Sequence.graphs) = Len(Ilocs))

C5_Witness ==
    /\ pc = "returned"
    /\ Targets.kind = "array"
    /\ Len(Ilocs) >= 2
    /\ Len(Targets.rows) = Len(Ilocs) - 1
    /\ IlocsValid
    /\ FlowOutcome = "ValueError"

\* C6: the padded flow, with valid graph_ilocs and targets, raises TypeError
\* for a batch_size that is not an int, ValueError for an int <= 0, and
\* succeeds for an int >= 1.
C6_BatchSize ==
    (/\ pc = "returned"
     /\ cls = "PaddedGraphGenerator"
     /\ IlocsValid
     /\ TargetsValid)
        => /\ ~BatchIsInteger => FlowOutcome = "TypeError"
           /\ (BatchIsInteger /\ BatchSize.val <= 0) => FlowOutcome = "ValueError"
           /\ (BatchIsInteger /\ BatchSize.val >= 1)
                  => (FlowOutcome = "ok" /\ Sequence.batch_size = BatchSize)

C6_Witness ==
    /\ pc = "returned"
    /\ cls = "PaddedGraphGenerator"
    /\ IlocsValid
    /\ Len(Ilocs) >= 1
    /\ TargetsValid
    /\ BatchSize = [type |-> "int", val |-> 0]
    /\ FlowOutcome = "ValueError"

\* C7: GraphGenerator accepts a non-empty list of valid graphs of differing
\* feature dimensionality and records the dimensionality of the first graph.
C7_UnpaddedFirstDimension ==
    (/\ HasRun
     /\ cls = "GraphGenerator"
     /\ InputGraphs # <<>>
     /\ AllValid(InputGraphs)
     /\ ~SameDims(InputGraphs))
        => /\ CtorOutcome = "ok"
           /\ Generator.node_features_size = Some(InputGraphs[1].fdim)

C7_Witness ==
    /\ pc = "ready"
    /\ cls = "GraphGenerator"
    /\ ~SameDims(InputGraphs)
    /\ Generator.node_features_size = Some(InputGraphs[1].fdim)
    /\ Generator.node_features_size # Some(InputGraphs[Len(InputGraphs)].fdim)

\* the object at Python index i of the generator's collection (the objects of
\* a collection are numbered by position)
IdAt(i) == IF i < 0 THEN Len(Generator.graphs) + i + 1 ELSE i + 1

\* C8: a successful flow hands the sequence constructor the graphs at
\* graph_ilocs, in that order and multiplicity, and the targets unchanged
\* (None when targets is None), so item k pairs graph graph_ilocs[k] with
\* targets[k].
C8_SelectionHandedOver ==
    (pc = "returned" /\ FlowOutcome = "ok")
        => /\ ret[1].seq # None
           /\ Len(Sequence.graphs) = Len(Ilocs)
           /\ \A k \in 1..Len(Ilocs) :
                  /\ Sequence.graphs[k].id = IdAt(Ilocs[k])
                  /\ Sequence.graphs[k] \in
                         {Generator.graphs[i] : i \in 1..Len(Generator.graphs)}
           /\ Sequence.targets = Targets
           /\ Targets.kind = "array"
                  => \A k \in 1..Len(Ilocs) :
                         Sequence.targets.rows[k] = Targets.rows[k]

C8_Witness ==
    /\ pc = "returned"
    /\ FlowOutcome = "ok"
    /\ Ilocs = <<1, 0>>
    /\ Targets.kind = "array"
    /\ Sequence.graphs[1].id = 2
    /\ Sequence.graphs[2].id = 1

\* C9: every failure of a constructor or of flow is a TypeError or a
\* ValueError, whatever the input, and a failed flow never invokes the
\* sequence constructor.
C9_OnlyTypeOrValueErrors ==
    /\ HasRun => CtorOutcome \in {"ok", "TypeError", "ValueError"}
    /\ pc = "returned"
           => /\ FlowOutcome \in {"ok", "TypeError", "ValueError"}
              /\ FlowOutcome # "ok" => ret[1].seq = None

\* a step taken once a generator exists leaves it as it was
GeneratorKept ==
    pc \in {"ready", "returned"} => (ctor' = ctor /\ args' = args /\ cls' = cls)

\* C10: once a generator is constructed, no flow call, succeeding or failing,
\* changes its graphs, node_features_size or name (nor the list it was
\* constructed from).
C10_FlowLeavesGenerator == [][GeneratorKept]_vars

C10_Witness ==
    /\ pc = "returned"
    /\ FlowOutcome = "ok"
    /\ Generator.name = Some("gen")
    /\ call[1].rest.name = Some("seq")
    /\ Len(Ilocs) >= 1

====
